---- MODULE Spec2Model ----
(***************************************************************************)
(* Model of src/actions/update-config/update-config.ts: the action that    *)
(* keeps the `openapi` mapping of .github/workflows/sync-openapi.yml in    *)
(* step with files renamed or deleted between the base and head commits.   *)
(*                                                                         *)
(* Text is a sequence of symbols.  A symbol is one character ("-", " ",    *)
(* "\n", ".", "$", a letter) or one keyword that holds neither a hyphen    *)
(* nor white space and that no path of the model contains ("source:",      *)
(* "destination:", "with:", "openapi:|", "token:t", "name:n").             *)
(***************************************************************************)
EXTENDS Integers, Sequences, FiniteSets, TLC

(* ------------------------------------------------------------------ *)
(* Bounds                                                             *)
(* ------------------------------------------------------------------ *)
MaxSpecs == 2
MaxChanges == 2
MaxDiffFiles == 1

(* ------------------------------------------------------------------ *)
(* Characters and text helpers                                        *)
(* ------------------------------------------------------------------ *)
NL == "\n"
SP == " "
HY == "-"
KSource == "source:"
KDest == "destination:"
KOpenapi == "openapi:|"

IsWs(c) == c \in {SP, NL}

Sub(t, i, j) == IF j < i THEN << >> ELSE SubSeq(t, i, j)

\* number of white-space symbols of t starting at position p
RECURSIVE WsRun(_, _)
WsRun(t, p) == IF p <= Len(t) /\ IsWs(t[p]) THEN 1 + WsRun(t, p + 1) ELSE 0

\* t holds lit at position p
HasLit(t, p, lit) ==
    /\ p + Len(lit) - 1 <= Len(t)
    /\ \A k \in 1..Len(lit) : t[p + k - 1] = lit[k]

(* ------------------------------------------------------------------ *)
(* escapeRegExp and the pattern a RegExp makes of the escaped path     *)
(* ------------------------------------------------------------------ *)
RegexSpecial == {".", "*", "+", "?", "^", "$", "{", "}", "(", ")", "|", "[", "]", "\\"}

RECURSIVE escapeRegExp(_)
escapeRegExp(s) ==
    IF s = << >> THEN << >>
    ELSE (IF Head(s) \in RegexSpecial THEN <<"\\", Head(s)>> ELSE <<Head(s)>>)
         \o escapeRegExp(Tail(s))

\* The atoms of a pattern source: \c is the character c, an unescaped dot
\* is any character, an unescaped $ is the end of input, the rest is itself.
RECURSIVE Compile(_)
Compile(p) ==
    IF p = << >> THEN << >>
    ELSE IF Head(p) = "\\" /\ Len(p) >= 2
         THEN <<[k |-> "lit", c |-> p[2]]>> \o Compile(Tail(Tail(p)))
    ELSE IF Head(p) = "." THEN <<[k |-> "any", c |-> "."]>> \o Compile(Tail(p))
    ELSE IF Head(p) = "$" THEN <<[k |-> "eol", c |-> "$"]>> \o Compile(Tail(p))
    ELSE <<[k |-> "lit", c |-> Head(p)]>> \o Compile(Tail(p))

\* Position after the atoms matched at p, or 0.  dotAll is the `s` flag.
RECURSIVE MatchAtoms(_, _, _, _)
MatchAtoms(t, p, atoms, dotAll) ==
    IF atoms = << >> THEN p
    ELSE LET a == Head(atoms) IN
         IF a.k = "eol"
         THEN IF p = Len(t) + 1 THEN MatchAtoms(t, p, Tail(atoms), dotAll) ELSE 0
         ELSE IF p > Len(t) THEN 0
         ELSE IF a.k = "lit" /\ t[p] # a.c THEN 0
         ELSE IF a.k = "any" /\ ~dotAll /\ t[p] = NL THEN 0
         ELSE MatchAtoms(t, p + 1, Tail(atoms), dotAll)

\* `\s*` then the atoms: the longest white-space run after which the
\* atoms match (greedy, backtracking).  Position after the atoms, or 0.
WsThenAtoms(t, p, atoms, dotAll) ==
    LET ok == {k \in 0..WsRun(t, p) : MatchAtoms(t, p + k, atoms, dotAll) # 0}
    IN IF ok = {} THEN 0
       ELSE LET k == CHOOSE x \in ok : \A y \in ok : y <= x
            IN MatchAtoms(t, p + k, atoms, dotAll)

\* `\s*<lit>` at p: the literal starts with a symbol that is not white
\* space, so only the whole run can precede it.  Position after lit, or 0.
WsThenLit(t, p, lit) ==
    LET q == p + WsRun(t, p) IN IF HasLit(t, q, lit) THEN q + Len(lit) ELSE 0

(* ------------------------------------------------------------------ *)
(* The three patterns of replaceSpecsInYaml                            *)
(* ------------------------------------------------------------------ *)
SourceLit == <<HY, SP, KSource>>
DestLit == <<KDest>>

\* `[^-]*?(?=\s*-|$)` from p: the first position q >= p, with no hyphen in
\* between, that is followed by white space and a hyphen, or is the end.
RECURSIVE LazyToHyphen(_, _)
LazyToHyphen(t, p) ==
    IF p > Len(t) THEN p
    ELSE IF p + WsRun(t, p) <= Len(t) /\ t[p + WsRun(t, p)] = HY THEN p
    ELSE LazyToHyphen(t, p + 1)

\* /\s*- source:\s*<old>[^-]*?(?=\s*-|$)/gs at p, atoms being the pattern
\* made of the escaped old path: end of the match, or 0
DeleteMatch(t, p, atoms) ==
    LET a == WsThenLit(t, p, SourceLit) IN
    IF a = 0 THEN 0
    ELSE LET b == WsThenAtoms(t, a, atoms, TRUE) IN
         IF b = 0 THEN 0 ELSE LazyToHyphen(t, b)

\* the characters the atoms consume
Width(atoms) == Cardinality({i \in 1..Len(atoms) : atoms[i].k # "eol"})

\* /(\s*<lit>\s*)<old>/g at p: [g1 |-> end of group 1, e |-> end of match]
\* with e = 0 when there is no match
PrefixMatch(t, p, lit, atoms) ==
    LET a == WsThenLit(t, p, lit) IN
    IF a = 0 THEN [g1 |-> 0, e |-> 0]
    ELSE LET b == WsThenAtoms(t, a, atoms, FALSE) IN
         IF b = 0 THEN [g1 |-> 0, e |-> 0] ELSE [g1 |-> b - Width(atoms), e |-> b]

\* String.prototype.replace's reading of a replacement string: $$ is a
\* dollar, $& the match, $1 the first group, any other character of the
\* model itself (the patterns have one group and none is named).
RECURSIVE Expand(_, _, _)
Expand(repl, g1, whole) ==
    IF repl = << >> THEN << >>
    ELSE IF Head(repl) = "$" /\ Len(repl) >= 2 /\ repl[2] = "$"
         THEN <<"$">> \o Expand(Tail(Tail(repl)), g1, whole)
    ELSE IF Head(repl) = "$" /\ Len(repl) >= 2 /\ repl[2] = "&"
         THEN whole \o Expand(Tail(Tail(repl)), g1, whole)
    ELSE IF Head(repl) = "$" /\ Len(repl) >= 2 /\ repl[2] = "1"
         THEN g1 \o Expand(Tail(Tail(repl)), g1, whole)
    ELSE <<Head(repl)>> \o Expand(Tail(repl), g1, whole)

\* t.replace(pattern, '') for the deletion pattern, from p on
RECURSIVE ReplaceDelete(_, _, _)
ReplaceDelete(t, p, atoms) ==
    IF p > Len(t) THEN << >>
    ELSE LET e == DeleteMatch(t, p, atoms) IN
         IF e # 0 THEN ReplaceDelete(t, e, atoms)
         ELSE <<t[p]>> \o ReplaceDelete(t, p + 1, atoms)

\* t.replace(/(\s*<lit>\s*)<old>/g, repl), from p on
RECURSIVE ReplacePrefixed(_, _, _, _, _)
ReplacePrefixed(t, p, lit, atoms, repl) ==
    IF p > Len(t) THEN << >>
    ELSE LET m == PrefixMatch(t, p, lit, atoms) IN
         IF m.e # 0
         THEN Expand(repl, Sub(t, p, m.g1 - 1), Sub(t, p, m.e - 1))
              \o ReplacePrefixed(t, m.e, lit, atoms, repl)
         ELSE <<t[p]>> \o ReplacePrefixed(t, p + 1, lit, atoms, repl)

\* new RegExp(`...${escapeRegExp(path)}...`): the part the path makes
PathPattern(path) == Compile(escapeRegExp(path))

(* ------------------------------------------------------------------ *)
(* Changes and decisions                                               *)
(* ------------------------------------------------------------------ *)
Deleted(p) == [kind |-> "D", old |-> p, new |-> p]
Renamed(o, n) == [kind |-> "R", old |-> o, new |-> n]

\* One entry of the Map that updateSpecsToMap returns: the key and the
\* value, which is the key object itself ("same"), null or a new object;
\* log is the core.info or core.warning call the entry came with.
Keep(spec) == [old |-> spec, new |-> spec, val |-> "same", log |-> "none"]
Drop(spec, log) == [old |-> spec, new |-> spec, val |-> "null", log |-> log]
Retarget(spec, newPath) ==
    [old |-> spec,
     new |-> [source |-> newPath, destination |-> spec.destination],
     val |-> "new", log |-> "info"]

\* a plausible slip: a rename without a new path leaves the entry as it is
DecideKeepDangling(spec, changeMap) ==
    IF spec.source \notin DOMAIN changeMap THEN Keep(spec)
    ELSE LET change == changeMap[spec.source] IN
         IF change.kind = "D" THEN Drop(spec, "info")
         ELSE IF change.new = << >> THEN Keep(spec)
         ELSE Retarget(spec, change.new)

\* the body of the loop of updateSpecsToMap
Decide(spec, changeMap) ==
    IF spec.source \notin DOMAIN changeMap THEN Keep(spec)
    ELSE LET change == changeMap[spec.source] IN
         IF change.kind = "D" THEN Drop(spec, "info")
         ELSE IF change.new = << >> THEN Drop(spec, "warning")
         ELSE Retarget(spec, change.new)

updateSpecsToMap(specList, changeMap) ==
    [i \in 1..Len(specList) |-> Decide(specList[i], changeMap)]

\* the core.warning calls that came with a Map
WarningsOf(updated) == Cardinality({i \in 1..Len(updated) : updated[i].log = "warning"})

\* one iteration of the loop of replaceSpecsInYaml
PatchOne(d, yaml) ==
    IF d.val = "same" THEN yaml
    ELSE IF d.val = "null" THEN ReplaceDelete(yaml, 1, PathPattern(d.old.source))
    ELSE LET sourceDone == ReplacePrefixed(yaml, 1, SourceLit, PathPattern(d.old.source),
                                           <<"$", "1">> \o d.new.source)
         IN ReplacePrefixed(sourceDone, 1, DestLit, PathPattern(d.old.destination),
                            <<"$", "1">> \o d.new.destination)

RECURSIVE PatchFrom(_, _, _)
PatchFrom(updatedSpecs, i, yaml) ==
    IF i > Len(updatedSpecs) THEN yaml
    ELSE PatchFrom(updatedSpecs, i + 1, PatchOne(updatedSpecs[i], yaml))

replaceSpecsInYaml(updatedSpecs, yamlContent) == PatchFrom(updatedSpecs, 1, yamlContent)

(* ------------------------------------------------------------------ *)
(* The workflow file                                                   *)
(* ------------------------------------------------------------------ *)
\* - with:
\*    openapi: |
\*     - source: <source>
\*       destination: <destination>
\*    token: t
\* - name: n
Indent(n) == [i \in 1..n |-> SP]

Header == <<HY, SP, "with:", NL>> \o Indent(3) \o <<KOpenapi>>

EntryText(spec) ==
    Indent(4) \o <<HY, SP, KSource, SP>> \o spec.source
    \o <<NL>> \o Indent(6) \o <<KDest, SP>> \o spec.destination

RECURSIVE EntriesText(_)
EntriesText(specs) ==
    IF specs = << >> THEN << >>
    ELSE <<NL>> \o EntryText(Head(specs)) \o EntriesText(Tail(specs))

\* what follows the mapping: the end of the file, or a sibling key and
\* the next step of the job
Trailers == { <<NL>>,
              <<NL>> \o Indent(3) \o <<"token:t", NL, HY, SP, "name:n", NL>> }

ConfigText(specs, trailer) == Header \o EntriesText(specs) \o trailer

(* ------------------------------------------------------------------ *)
(* yaml.load of the file and of its openapi block                      *)
(* ------------------------------------------------------------------ *)
\* the lines of t, without their terminators
RECURSIVE LinesFrom(_, _, _)
LinesFrom(t, p, cur) ==
    IF p > Len(t) THEN <<cur>>
    ELSE IF t[p] = NL THEN <<cur>> \o LinesFrom(t, p + 1, << >>)
    ELSE LinesFrom(t, p + 1, Append(cur, t[p]))

Lines(t) == LinesFrom(t, 1, << >>)

RECURSIVE IndentOf(_)
IndentOf(l) == IF l # << >> /\ Head(l) = SP THEN 1 + IndentOf(Tail(l)) ELSE 0

Strip(l) == Sub(l, IndentOf(l) + 1, Len(l))

IsPath(v) == v # << >> /\ \A i \in 1..Len(v) : ~IsWs(v[i])

\* the lines of the block scalar under `openapi: |`: those after the key
\* that are indented deeper than it, up to the first that is not
BlockLines(ls) ==
    LET hs == {i \in 1..Len(ls) : Strip(ls[i]) = <<KOpenapi>>} IN
    IF hs = {} THEN << >>
    ELSE LET h == CHOOSE i \in hs : \A j \in hs : i <= j
             stop == {i \in (h + 1)..Len(ls) :
                         ls[i] # << >> /\ IndentOf(ls[i]) <= IndentOf(ls[h])}
             last == IF stop = {} THEN Len(ls)
                     ELSE (CHOOSE i \in stop : \A j \in stop : i <= j) - 1
         IN Sub(ls, h + 1, last)

\* the list of {source, destination} records the block holds; ok is
\* FALSE when the block is not such a list
RECURSIVE ParseItems(_, _)
ParseItems(ls, acc) ==
    IF ls = << >>
    THEN [ok |-> \A i \in 1..Len(acc) : acc[i].destination # << >>, items |-> acc]
    ELSE LET l == Strip(Head(ls))
             n == Len(acc) IN
         IF l = << >> THEN ParseItems(Tail(ls), acc)
         ELSE IF HasLit(l, 1, <<HY, SP, KSource, SP>>) /\ IsPath(Sub(l, 5, Len(l)))
              THEN ParseItems(Tail(ls),
                       Append(acc, [source |-> Sub(l, 5, Len(l)), destination |-> << >>]))
         ELSE IF /\ HasLit(l, 1, <<KDest, SP>>) /\ IsPath(Sub(l, 3, Len(l)))
                 /\ n > 0 /\ acc[n].destination = << >>
              THEN ParseItems(Tail(ls),
                       [acc EXCEPT ![n].destination = Sub(l, 3, Len(l))])
         ELSE [ok |-> FALSE, items |-> << >>]

HasMapping(ls) == \E i \in 1..Len(ls) : Strip(ls[i]) = <<KOpenapi>>

LoadMapping(t) ==
    LET ls == Lines(t) IN
    IF HasMapping(ls) THEN ParseItems(BlockLines(ls), << >>)
    ELSE [ok |-> FALSE, items |-> << >>]

\* parseOpenAPIBlock: what is not an array is the empty list
parseOpenAPIBlock(t) ==
    LET parsed == LoadMapping(t) IN IF parsed.ok THEN parsed.items ELSE << >>

(* ------------------------------------------------------------------ *)
(* Inputs                                                              *)
(* ------------------------------------------------------------------ *)
Sources == { <<"x">>, <<"x", ".", "y">>, <<"b">> }
NewPaths == { << >>, <<"z">>, <<"$", "$">> }

SpecRecords ==
    { [source |-> <<"x">>, destination |-> <<"o", "-", "p">>],
      [source |-> <<"x", ".", "y">>, destination |-> <<"o">>],
      [source |-> <<"b">>, destination |-> <<"o">>] }

SeqsUpTo(S, n) == UNION {[1..k -> S] : k \in 1..n}

ChangeOf(p) == {Deleted(p)} \cup {Renamed(p, n) : n \in NewPaths}

\* the objects getDiffFiles can return: old path -> change, keyed by
\* the change's own old path
ChangeMaps ==
    UNION { {c \in [K -> UNION {ChangeOf(p) : p \in K}] : \A p \in K : c[p].old = p}
            : K \in {K0 \in SUBSET Sources : Cardinality(K0) <= MaxChanges} }

(* ------------------------------------------------------------------ *)
(* The reconcile-and-patch pipeline on one file                        *)
(* ------------------------------------------------------------------ *)
VARIABLES
    yamlContent,   \* the raw text of the workflow file
    trailer,       \* what the file holds after the mapping
    changes,       \* old path -> change
    specs,         \* parseOpenAPIBlock of the mapping
    updatedSpecs,  \* the Map of updateSpecsToMap, in insertion order
    warnings,      \* core.warning calls so far
    updatedYaml,   \* the result of replaceSpecsInYaml
    phase

VARIABLES
    headFile,    \* the workflow file at the commit that triggered the runs
    branchFile,  \* the workflow file at the tip of the pull request's branch
    commits,     \* the content writes the hosting API accepted, in order,
                 \* each with the text its writer patched and the text it replaced
    run          \* per run: the state of run() and of its runner's checkout

rvars == <<headFile, branchFile, commits, run>>

pvars == <<yamlContent, trailer, changes, specs, updatedSpecs, warnings, updatedYaml, phase>>

PatchInit ==
    /\ trailer \in Trailers
    /\ \E l \in SeqsUpTo(SpecRecords, MaxSpecs) : yamlContent = ConfigText(l, trailer)
    /\ changes \in ChangeMaps
    /\ specs = << >>
    /\ updatedSpecs = << >>
    /\ warnings = 0
    /\ updatedYaml = << >>
    /\ phase = "raw"
    /\ headFile = << >> /\ branchFile = << >> /\ commits = << >> /\ run = << >>

ParseSpecs ==
    /\ phase = "raw"
    /\ specs' = parseOpenAPIBlock(yamlContent)
    /\ phase' = "parsed"
    /\ UNCHANGED <<rvars, yamlContent, trailer, changes, updatedSpecs, warnings, updatedYaml>>

Reconcile ==
    /\ phase = "parsed"
    /\ updatedSpecs' = updateSpecsToMap(specs, changes)
    /\ warnings' = warnings + WarningsOf(updateSpecsToMap(specs, changes))
    /\ phase' = "decided"
    /\ UNCHANGED <<rvars, yamlContent, trailer, changes, specs, updatedYaml>>

Patch ==
    /\ phase = "decided"
    /\ updatedYaml' = replaceSpecsInYaml(updatedSpecs, yamlContent)
    /\ phase' = "patched"
    /\ UNCHANGED <<rvars, yamlContent, trailer, changes, specs, updatedSpecs, warnings>>

PatchNext == ParseSpecs \/ Reconcile \/ Patch

SpecPatch == PatchInit /\ [][PatchNext]_<<rvars, pvars>>

(* ------------------------------------------------------------------ *)
(* getDiffFiles                                                        *)
(* ------------------------------------------------------------------ *)
NoChanges == [p \in {} |-> Deleted(p)]

\* diff[key] = value
Put(diff, key, value) ==
    [p \in DOMAIN diff \cup {key} |-> IF p = key THEN value ELSE diff[p]]

\* a plausible slip: every status but "renamed" counted as a removal
RECURSIVE DiffOfAllRemoved(_, _)
DiffOfAllRemoved(files, diff) ==
    IF files = << >> THEN diff
    ELSE LET file == Head(files) IN
         DiffOfAllRemoved(Tail(files),
            IF file.status = "renamed"
            THEN Put(diff, file.previous_filename,
                     Renamed(file.previous_filename, file.filename))
            ELSE Put(diff, file.filename, Deleted(file.filename)))

\* the loop over compareData.files
RECURSIVE DiffOf(_, _)
DiffOf(files, diff) ==
    IF files = << >> THEN diff
    ELSE LET file == Head(files) IN
         DiffOf(Tail(files),
            IF file.status = "removed"
            THEN Put(diff, file.filename, Deleted(file.filename))
            ELSE IF file.status = "renamed"
            THEN Put(diff, file.previous_filename,
                     Renamed(file.previous_filename, file.filename))
            ELSE diff)

File(status, filename, previous) ==
    [status |-> status, filename |-> filename, previous_filename |-> previous]

\* files a comparison can report; <<"r">> is a file no spec names
DiffFileRecords ==
    { File("removed", <<"x">>, << >>),
      File("removed", <<"r">>, << >>),
      File("renamed", <<"z">>, <<"x">>),
      File("modified", <<"x">>, << >>),
      File("copied", <<"z">>, <<"x">>),
      File("added", <<"z">>, << >>) }

DiffResponses == {<< >>} \cup SeqsUpTo(DiffFileRecords, MaxDiffFiles)

(* ------------------------------------------------------------------ *)
(* Runs of the action                                                  *)
(* ------------------------------------------------------------------ *)
Runs == {"r1", "r2"}

None == "none"
MsgNoConfig == "Config file not found at .github/workflows/sync-openapi.yml"
MsgNoStep == "Cannot read properties of undefined (reading 'with')"
MsgNoToken == "GitHub token is required"
MsgNoBaseRef == "GITHUB_BASE_REF not found. Are you running in a PR context?"
MsgNotFile == "Path exists but is not a file"
MsgNoBranch == "Could not find branch for PR."
MsgApi == "request failed"
MsgConflict == "sha does not match"

\* the blob hash the hosting API keys a file's content by
Sha(content) == <<"blob">> \o content

LargeTrailer == CHOOSE t \in Trailers : Len(t) > 1

\* a workflow whose openapi block is not a list
ScalarConfig == Header \o <<NL>> \o Indent(4) \o <<"name:n">> \o LargeTrailer

HeadConfigs ==
    { ConfigText(<<rec>>, LargeTrailer) :
        rec \in { [source |-> <<"x">>, destination |-> <<"o">>],
                  [source |-> <<"b">>, destination |-> <<"o">>] } }
    \cup {ScalarConfig}

vars == <<rvars, pvars>>

Stages == <<"load", "token", "baseRef", "getBranch", "parse", "diff",
            "patch", "forkCheck", "getContent", "put">>

NewRun(file) ==
    [ pc |-> "load",
      steps |-> << >>,          \* the stages executed so far
      localFile |-> file,       \* the file at CONFIG_PATH in the checkout
      localWrites |-> 0,        \* writeFileSync calls
      configRaw |-> << >>,
      specs |-> << >>,
      compared |-> FALSE,       \* repos.compareCommits has answered
      files |-> << >>,          \* compareData.files
      changes |-> NoChanges,
      warnings |-> 0,
      isFork |-> FALSE,
      content |-> << >>,
      fileSha |-> << >>,
      gets |-> 0,               \* getContent calls
      puts |-> 0,               \* createOrUpdateFileContents calls
      rejected |-> FALSE,       \* the write was refused for its sha
      error |-> None,           \* the message of the Error thrown
      failures |-> 0,           \* core.setFailed calls
      failMsg |-> None ]

Enter(s, stage) == [s EXCEPT !.steps = Append(@, stage)]

setFailed(s, msg) ==
    [s EXCEPT !.pc = "failed", !.failures = @ + 1, !.failMsg = msg]

\* throw new Error(msg), caught by run()'s catch: core.setFailed(error.message)
Throw(s, msg) == LET e == [s EXCEPT !.error = msg] IN setFailed(e, e.error)

Goto(s, pc) == [s EXCEPT !.pc = pc]

Step(r, s) ==
    /\ run' = [run EXCEPT ![r] = s]
    /\ UNCHANGED <<headFile, branchFile, commits, pvars>>

RunInit ==
    /\ headFile \in HeadConfigs
    /\ branchFile = headFile
    /\ commits = << >>
    /\ run = [r \in Runs |-> NewRun(headFile)]
    /\ yamlContent = << >> /\ trailer = << >> /\ changes = NoChanges
    /\ specs = << >> /\ updatedSpecs = << >> /\ warnings = 0
    /\ updatedYaml = << >> /\ phase = "idle"

\* a plausible slip: no return after the failure is reported, so that the
\* read of the missing file throws
LoadConfigNoReturn(r) ==
    /\ run[r].pc = "load"
    /\ \E exists \in BOOLEAN, hasStep \in BOOLEAN :
        LET s == Enter(run[r], "load") IN
        IF ~exists
        THEN Step(r, Throw(setFailed(s, MsgNoConfig), MsgApi))
        ELSE IF ~hasStep THEN Step(r, Throw(s, MsgNoStep))
        ELSE Step(r, Goto([s EXCEPT !.configRaw = s.localFile], "token"))

\* run() up to the token: the file is there, is read and holds a step
\* with an openapi mapping (a file without one makes `syncStep.with` throw)
LoadConfig(r) ==
    /\ run[r].pc = "load"
    /\ \E exists \in BOOLEAN, hasStep \in BOOLEAN :
        LET s == Enter(run[r], "load") IN
        IF ~exists THEN Step(r, setFailed(s, MsgNoConfig))
        ELSE IF ~hasStep THEN Step(r, Throw(s, MsgNoStep))
        ELSE Step(r, Goto([s EXCEPT !.configRaw = s.localFile], "token"))

\* lines 278-282
ResolveToken(r) ==
    /\ run[r].pc = "token"
    /\ \E hasToken \in BOOLEAN :
        LET s == Enter(run[r], "token") IN
        IF ~hasToken THEN Step(r, Throw(s, MsgNoToken))
        ELSE Step(r, Goto(s, "baseRef"))

\* getBaseRef up to its request
GetBaseRef(r) ==
    /\ run[r].pc = "baseRef"
    /\ \E hasBaseRef \in BOOLEAN :
        LET s == Enter(run[r], "baseRef") IN
        IF ~hasBaseRef THEN Step(r, Throw(s, MsgNoBaseRef))
        ELSE Step(r, Goto(s, "getBranch"))

\* the answer of repos.getBranch
GetBranch(r) ==
    /\ run[r].pc = "getBranch"
    /\ \E ok \in BOOLEAN :
        LET s == Enter(run[r], "getBranch") IN
        IF ~ok THEN Step(r, Throw(s, MsgApi))
        ELSE Step(r, Goto(s, "parse"))

\* lines 286-291
ParseBlock(r) ==
    /\ run[r].pc = "parse"
    /\ LET s == [Enter(run[r], "parse") EXCEPT !.specs = parseOpenAPIBlock(run[r].configRaw)]
       IN IF Len(s.specs) = 0 THEN Step(r, Goto(s, "done"))
          ELSE Step(r, Goto(s, "diff"))

\* the answer of repos.compareCommits, getDiffFiles and lines 295-298
GetDiffFiles(r) ==
    /\ run[r].pc = "diff"
    /\ \E ok \in BOOLEAN, files \in DiffResponses :
        LET s == Enter(run[r], "diff")
            t == [s EXCEPT !.compared = TRUE, !.files = files,
                          !.changes = DiffOf(files, NoChanges)]
        IN IF ~ok THEN Step(r, Throw(s, MsgApi))
           ELSE IF DOMAIN t.changes = {} THEN Step(r, Goto(t, "done"))
           ELSE Step(r, Goto(t, "patch"))

\* lines 300-308
PatchConfig(r) ==
    /\ run[r].pc = "patch"
    /\ LET s == Enter(run[r], "patch")
           updatedMap == updateSpecsToMap(s.specs, s.changes)
           patched == replaceSpecsInYaml(updatedMap, s.configRaw)
       IN Step(r, Goto([s EXCEPT !.warnings = @ + WarningsOf(updatedMap),
                                 !.localFile = patched,
                                 !.localWrites = @ + 1], "forkCheck"))

\* autoCommitAndPushIfChanged up to its first request
ForkCheck(r) ==
    /\ run[r].pc = "forkCheck"
    /\ \E isFork \in BOOLEAN :
        LET s == [Enter(run[r], "forkCheck") EXCEPT !.isFork = isFork] IN
        IF isFork THEN Step(r, Goto(s, "done"))
        ELSE Step(r, Goto([s EXCEPT !.content = s.localFile, !.gets = @ + 1], "getContent"))

\* a plausible slip: the hash read at the tip of the branch
ContentAtRefBranch(head, branch) == branch

\* the file repos.getContent reads: `ref: github.context.sha` is the
\* commit that triggered the run, whatever the branch has become
ContentAtRef(head, branch) == head

\* the answer of repos.getContent, and autoCommitAndPushIfChanged up to
\* its write request
GetContent(r) ==
    /\ run[r].pc = "getContent"
    /\ \E ok \in BOOLEAN, isFile \in BOOLEAN, hasBranch \in BOOLEAN :
        LET s == Enter(run[r], "getContent") IN
        IF ~ok THEN Step(r, Throw(s, MsgApi))
        ELSE IF ~isFile THEN Step(r, Throw(s, MsgNotFile))
        ELSE LET t == [s EXCEPT !.fileSha = Sha(ContentAtRef(headFile, branchFile))] IN
             IF ~hasBranch THEN Step(r, Throw(t, MsgNoBranch))
             ELSE Step(r, Goto([t EXCEPT !.puts = @ + 1], "put"))

\* the hosting API takes the write when the hash sent is that of the file
\* on the branch
WriteAccepted(sha, file) == sha = Sha(file)

\* the answer of repos.createOrUpdateFileContents, and line 311
CreateOrUpdate(r) ==
    /\ run[r].pc = "put"
    /\ \E ok \in BOOLEAN :
        LET s == Enter(run[r], "put") IN
        IF ~ok
        THEN Step(r, Throw(s, MsgApi))
        ELSE IF ~WriteAccepted(s.fileSha, branchFile)
        THEN Step(r, Throw([s EXCEPT !.rejected = TRUE], MsgConflict))
        ELSE /\ run' = [run EXCEPT ![r] = Goto(s, "done")]
             /\ branchFile' = s.content
             /\ commits' = Append(commits, [by |-> r, base |-> s.configRaw,
                                            replaced |-> branchFile, content |-> s.content])
             /\ UNCHANGED <<headFile, pvars>>

RunStep(r) ==
    \/ LoadConfig(r) \/ ResolveToken(r) \/ GetBaseRef(r) \/ GetBranch(r)
    \/ ParseBlock(r) \/ GetDiffFiles(r) \/ PatchConfig(r) \/ ForkCheck(r)
    \/ GetContent(r) \/ CreateOrUpdate(r)

Next == \E r \in Runs : RunStep(r)

Spec == RunInit /\ [][Next]_vars

(* ------------------------------------------------------------------ *)
(* Properties of the reconcile-and-patch pipeline (SpecPatch)          *)
(* ------------------------------------------------------------------ *)
\* w occurs in t as a contiguous run
Occurs(w, t) == \E p \in 1..(Len(t) - Len(w) + 1) : HasLit(t, p, w)

SourceLine(spec) == Indent(4) \o <<HY, SP, KSource, SP>> \o spec.source
DestLine(spec) == Indent(6) \o <<KDest, SP>> \o spec.destination

\* the entry's two lines stand in t, one after the other
EntryIntact(spec, t) ==
    \E k \in 1..(Len(Lines(t)) - 1) :
        Lines(t)[k] = SourceLine(spec) /\ Lines(t)[k + 1] = DestLine(spec)

\* the mapping the decisions describe: kept and retargeted entries, in order
RECURSIVE Survivors(_)
Survivors(updated) ==
    IF updated = << >> THEN << >>
    ELSE (IF Head(updated).val = "null" THEN << >> ELSE <<Head(updated).new>>)
         \o Survivors(Tail(updated))

Matches(i, kind) ==
    /\ specs[i].source \in DOMAIN changes
    /\ changes[specs[i].source].kind = kind

MissingNewPath(i) == Matches(i, "R") /\ changes[specs[i].source].new = << >>

OnlyDeletions == \A p \in DOMAIN changes : changes[p].kind = "D"

NoRetarget == \A i \in 1..Len(updatedSpecs) : updatedSpecs[i].val # "new"

\* C1: once patched under a change mapping of deletions, no entry whose
\* source is Deleted is left in the text, and loading the mapping again
\* gives the input entries without the dropped ones.
C1_DeletedEntriesGone ==
    (phase = "patched" /\ OnlyDeletions) =>
        /\ \A i \in 1..Len(specs) : Matches(i, "D") =>
              /\ ~Occurs(SourceLine(specs[i]), updatedYaml)
              /\ ~EntryIntact(specs[i], updatedYaml)
        /\ LoadMapping(updatedYaml) = [ok |-> TRUE, items |-> Survivors(updatedSpecs)]

\* C2: once patched, the entry of every spec renamed to a non-empty new
\* path reads `source: <new path>` with the destination it had.
C2_RenamedEntryRetargeted ==
    phase = "patched" =>
        \A i \in 1..Len(specs) :
            (Matches(i, "R") /\ ~MissingNewPath(i)) =>
                LET j == Cardinality({k \in 1..i : updatedSpecs[k].val # "null"})
                    m == LoadMapping(updatedYaml)
                IN /\ m.ok
                   /\ j <= Len(m.items)
                   /\ m.items[j] = [source |-> changes[specs[i].source].new,
                                    destination |-> specs[i].destination]

\* C3: a spec whose source no change names is decided Unchanged, and its
\* two lines are in the patched text as they were.
C3_UnchangedEntryUntouched ==
    phase = "patched" =>
        \A i \in 1..Len(specs) :
            specs[i].source \notin DOMAIN changes =>
                /\ updatedSpecs[i].val = "same"
                /\ EntryIntact(specs[i], updatedYaml)

\* C4: when entries are only dropped, the patched text is the input text
\* without the blocks of the dropped entries: the header, the entries kept
\* and all that follows the mapping are as they were.
C4_OnlyDroppedBlocksRemoved ==
    (phase = "patched" /\ NoRetarget) =>
        updatedYaml = ConfigText(Survivors(updatedSpecs), trailer)

\* the change mapping with every rename that lacks its new path made a deletion
AsDeleted == [p \in DOMAIN changes |->
                 IF changes[p].kind = "R" /\ changes[p].new = << >>
                 THEN Deleted(p) ELSE changes[p]]

SameButLog(a, b) ==
    /\ Len(a) = Len(b)
    /\ \A i \in 1..Len(a) : a[i].old = b[i].old /\ a[i].new = b[i].new /\ a[i].val = b[i].val

\* C8: a rename without its new path is decided and patched as a deletion
\* of the same path is: the spec is dropped, the text is the text the
\* deletion gives, one warning is logged for the spec, and every spec of
\* the list still gets its decision.
C8_MissingNewPathIsDeletion ==
    /\ phase \in {"decided", "patched"} =>
          /\ Len(updatedSpecs) = Len(specs)
          /\ SameButLog(updatedSpecs, updateSpecsToMap(specs, AsDeleted))
          /\ \A i \in 1..Len(specs) : MissingNewPath(i) =>
                updatedSpecs[i].val = "null" /\ updatedSpecs[i].log = "warning"
          /\ warnings = Cardinality({i \in 1..Len(specs) : MissingNewPath(i)})
    /\ (phase = "patched" /\ AsDeleted # changes) =>
          updatedYaml = replaceSpecsInYaml(updateSpecsToMap(specs, AsDeleted), yamlContent)

\* C8 witness: a spec renamed without a new path was dropped from the
\* text, and a later spec of the same list was retargeted.
C8_Witness ==
    /\ phase = "patched"
    /\ \E i, j \in 1..Len(specs) :
          /\ i < j
          /\ MissingNewPath(i)
          /\ updatedSpecs[j].val = "new"
    /\ updatedYaml # yamlContent
    /\ warnings >= 1

OneRename(old, new) ==
    /\ DOMAIN changes = {old}
    /\ changes[old] = Renamed(old, new)
    /\ new # << >>

\* C9: when the one change is a rename, the entries whose source does not
\* begin with the characters of the old path keep their source line, and a
\* spec of the old path gets a source line that holds the new path itself.
C9_PathsAreLiteral ==
    phase = "patched" =>
        \A old \in DOMAIN changes : \A new \in NewPaths :
            OneRename(old, new) =>
                \A i \in 1..Len(specs) :
                    /\ ~HasLit(specs[i].source, 1, old) =>
                          Occurs(SourceLine(specs[i]), updatedYaml)
                    /\ specs[i].source = old =>
                          \E k \in 1..Len(Lines(updatedYaml)) :
                              Lines(updatedYaml)[k] =
                                  SourceLine([source |-> new, destination |-> << >>])

(* ------------------------------------------------------------------ *)
(* Properties of the runs (Spec)                                       *)
(* ------------------------------------------------------------------ *)
Terminal == {"done", "failed"}

IsPrefix(a, b) == Len(a) <= Len(b) /\ \A i \in 1..Len(a) : a[i] = b[i]

Ran(r, stage) == \E i \in 1..Len(run[r].steps) : run[r].steps[i] = stage

CommitsBy(r) == {i \in 1..Len(commits) : commits[i].by = r}

\* at least one spec of the run was dropped or retargeted
ChangesApplied(r) ==
    \E i \in 1..Len(run[r].specs) :
        updateSpecsToMap(run[r].specs, run[r].changes)[i].val # "same"

\* C5: a content write is sent only when a spec was dropped or retargeted,
\* the patched file differs from the original and the pull request is not
\* from a fork; a run on a fork sends no content read and no content write.
C5_CommitOnlyIfChanged ==
    \A r \in Runs :
        /\ run[r].puts > 0 =>
              /\ ~run[r].isFork
              /\ ChangesApplied(r)
              /\ run[r].content # run[r].configRaw
        /\ run[r].isFork => run[r].gets = 0 /\ run[r].puts = 0

NoRemovedOrRenamed(files) ==
    \A i \in 1..Len(files) : files[i].status \notin {"removed", "renamed"}

\* C6: when the comparison reports no removed and no renamed file, the
\* change mapping is empty, every spec is Unchanged, and the run is over
\* without a failure, without a write of the local file and without a
\* content read or write.
C6_NoRelevantChangeNoWrite ==
    \A r \in Runs :
        (run[r].compared /\ NoRemovedOrRenamed(run[r].files)) =>
            /\ run[r].changes = NoChanges
            /\ ~ChangesApplied(r)
            /\ run[r].pc = "done"
            /\ run[r].failures = 0
            /\ run[r].localWrites = 0
            /\ run[r].localFile = headFile
            /\ run[r].gets = 0 /\ run[r].puts = 0
            /\ CommitsBy(r) = {}

\* C6 witness: a comparison that reported files, none of them removed or
\* renamed, ended a run.
C6_Witness ==
    \E r \in Runs :
        /\ run[r].compared
        /\ run[r].files # << >>
        /\ NoRemovedOrRenamed(run[r].files)
        /\ run[r].pc = "done"

C7_Safe ==
    /\ \A i \in 1..Len(commits) : commits[i].replaced = commits[i].base
    /\ \A r \in Runs :
          /\ run[r].rejected =>
                /\ run[r].pc = "failed"
                /\ run[r].failures = 1
                /\ run[r].failMsg = MsgConflict
                /\ CommitsBy(r) = {}
          /\ run[r].puts <= 1

\* the steps of a run that hear from the hosting API or read the
\* environment; the other two steps, "parse" and "patch", compute on the
\* run's own data
Answer(r) ==
    \/ LoadConfig(r) \/ ResolveToken(r) \/ GetBaseRef(r) \/ GetBranch(r)
    \/ GetDiffFiles(r) \/ ForkCheck(r) \/ GetContent(r) \/ CreateOrUpdate(r)

\* a run that is not over can take its next step, whatever the other did
NoRunWaits ==
    \A r \in Runs :
        run[r].pc \notin Terminal =>
            run[r].pc \in {"parse", "patch"} \/ ENABLED Answer(r)

\* C7: every accepted write replaced the very content its writer had
\* patched; a run whose write was refused for its hash has failed
\* once, with the refusal as its message, after a single write request and
\* without a commit; and no run ever waits for the other.
C7_OptimisticWrite == C7_Safe /\ NoRunWaits

\* C7 witness: one run committed a changed file and the other run's write
\* was refused.
C7_Witness ==
    \E r, q \in Runs :
        /\ r # q
        /\ CommitsBy(r) # {}
        /\ branchFile # headFile
        /\ run[q].rejected
        /\ run[q].pc = "failed"

C10_Safe ==
    \A r \in Runs :
        /\ run[r].failures <= 1
        /\ (run[r].pc = "failed") <=> (run[r].failures = 1)
        /\ run[r].pc = "failed" =>
              /\ run[r].failMsg # None
              /\ run[r].error # None => run[r].failMsg = run[r].error
        /\ run[r].pc # "failed" => run[r].error = None /\ run[r].failMsg = None
        /\ IsPrefix(run[r].steps, Stages)
        /\ (run[r].pc = "failed" /\ ~Ran(r, "patch")) =>
              /\ run[r].localFile = headFile
              /\ run[r].localWrites = 0
              /\ run[r].gets = 0 /\ run[r].puts = 0
              /\ CommitsBy(r) = {}

\* a run that has failed takes no further step
FailedStays == \A r \in Runs : run[r].pc = "failed" => run'[r] = run[r]

\* C10: a run fails at most once and is failed exactly when it has
\* reported a failure, the report carries the message of the error thrown,
\* the stages run in order and none twice, a run that failed before the
\* patch stage has written neither the local file nor the branch, and a
\* failed run takes no further step.
C10_SingleFailureSignal == []C10_Safe /\ [][FailedStays]_vars

\* C10 witness: a run failed for a base branch that did not resolve and
\* wrote nothing, while the other run committed.
C10_Witness ==
    \E r, q \in Runs :
        /\ run[r].pc = "failed"
        /\ run[r].failures = 1
        /\ run[r].failMsg = MsgNoBaseRef
        /\ run[r].steps = <<"load", "token", "baseRef">>
        /\ run[q].pc = "done"
        /\ CommitsBy(q) # {}

====
